---- MODULE Spec2Model ----
(***************************************************************************)
(* The user API of cmd/api/main.go: an in-memory map of users behind five  *)
(* gin handlers, with a best-effort JSON mirror file per user.             *)
(*                                                                         *)
(* Spec      requests handled one at a time, each handler one action,      *)
(*           every mirror write succeeding.                                *)
(* ConcSpec  handlers running as goroutines, interleaved at their accesses *)
(*           to the shared map and to the shared User objects.             *)
(***************************************************************************)
EXTENDS Naturals, Sequences, FiniteSets, TLC

\* ------------------------------------------------------------------ bounds
\* how many users can be created in one run (uuid.New() values available)
MaxUsers == 2

\* how many goroutines serve requests at the same time
NProcs == 2

\* how many requests a run of ConcSpec accepts
MaxReqs == 3

Procs == 1..NProcs

\* the values uuid.New().String() returns, in the order it returns them
IDSeq == <<"u1", "u2", "u3", "u4">>

IDs == {IDSeq[i] : i \in 1..MaxUsers}

\* the :id path parameters requests carry: every uuid, and one never issued
ReqIDs == IDs \cup {"nope"}

Names == {"", "A", "B"}

Emails == {"", "a@x"}

\* ------------------------------------------------------------------ data
\* the zero value of the User struct
ZeroUser == [ID |-> "", Name |-> "", Email |-> "", CreatedAt |-> 0]

\* Request bodies. kind "malformed" is a body that is not JSON (or is empty),
\* "mistyped" is JSON whose fields do not have the types of User's fields
\* (a number for name, a created_at that is not an RFC 3339 string), "object"
\* is a JSON object that decodes into User; an absent field is the zero value.
\* An object either carries no id and no created_at, or carries both.
Bodies ==
    {[kind |-> k, id |-> "", name |-> "", email |-> "", created_at |-> 0] :
        k \in {"malformed", "mistyped"}}
    \cup
    {[kind |-> "object", id |-> x[1], name |-> n, email |-> e, created_at |-> x[2]] :
        n \in Names, e \in Emails, x \in {<<"", 0>>, <<"u1", 99>>}}

NoBody == [kind |-> "none", id |-> "", name |-> "", email |-> "", created_at |-> 0]

\* a binder that accepts every body
ShouldBindJSON_Lenient(body) ==
    [err |-> FALSE,
     user |-> [ID |-> body.id, Name |-> body.name, Email |-> body.email,
               CreatedAt |-> body.created_at]]

\* c.ShouldBindJSON(&user): decodes the body into a zero User. User has no
\* binding tags, so the only errors are the decoder's.
ShouldBindJSON(body) ==
    IF body.kind # "object"
    THEN [err |-> TRUE, user |-> ZeroUser]
    ELSE [err |-> FALSE,
          user |-> [ID |-> body.id, Name |-> body.name, Email |-> body.email,
                    CreatedAt |-> body.created_at]]

\* m[k] = v on a Go map
MapAssign(m, k, v) == [x \in DOMAIN m \cup {k} |-> IF x = k THEN v ELSE m[x]]

\* a delete that empties the map
MapDelete_All(m, k) == [x \in {} |-> 0]

\* a delete that leaves the key in the map
MapDelete_Noop(m, k) == m

\* delete(m, k) on a Go map
MapDelete(m, k) == [x \in DOMAIN m \ {k} |-> m[x]]

EmptyMap == [x \in {} |-> 0]

\* a generator that returns the same value again
NewUUID_Reused(n) == IDSeq[1]

\* uuid.New().String(): the n-th call returns a value no earlier call returned
NewUUID(n) == IDSeq[n + 1]

\* an envelope whose status is "success" whatever the handler chose
Response_AlwaysSuccess(op, id, body, code, status, payload, data) ==
    [op |-> op, id |-> id, req |-> body, code |-> code, status |-> "success",
     payload |-> payload, data |-> data]

\* the response a handler passes to c.JSON, with the request it answers
Response(op, id, body, code, status, payload, data) ==
    [op |-> op, id |-> id, req |-> body, code |-> code, status |-> status,
     payload |-> payload, data |-> data]

NoResponse == Response("none", "", NoBody, 0, "", "none", <<>>)

\* the sequences that enumerate the set S once each (the orders of a range loop)
Orders(S) ==
    {s \in [1..Cardinality(S) -> S] : \A i, j \in 1..Cardinality(S) : s[i] = s[j] => i = j}

\* the request bodies of ConcSpec
ConcBodies ==
    {[kind |-> "malformed", id |-> "", name |-> "", email |-> "", created_at |-> 0]}
    \cup
    {[kind |-> "object", id |-> "", name |-> x[1], email |-> x[2], created_at |-> 0] :
        x \in {<<"A", "a@x">>, <<"B", "b@x">>, <<"B", "">>}}

\* a goroutine's request and the local variables of its handler: the decoded
\* updateData, the *User it holds (0 is nil) and the userList of a list
NoLocal == [op |-> "none", id |-> "", body |-> NoBody, data |-> ZeroUser,
            ptr |-> 0, list |-> <<>>]

\* ------------------------------------------------------------------ state
VARIABLES
    users,      \* var users = make(map[string]*User): key -> address of a User
    heap,       \* the User objects the map and the handlers point to: address -> User
    files,      \* /app/data/user_<ID>.json: ID -> the User written there
    nextID,     \* how many values uuid.New() has returned (and Users were allocated)
    clock,      \* what time.Now() returns next
    resp,       \* Spec: the response to the last request
    returned,   \* the IDs that create responses have carried so far
    gone,       \* the ids whose delete was answered with success so far
    expect,     \* what the responses so far say is stored: ID -> <<name, email>>
    pc,         \* ConcSpec: where each goroutine is in its handler
    loc,        \* ConcSpec: each goroutine's request and local variables
    out,        \* ConcSpec: the last response each goroutine sent
    raced,      \* ConcSpec: the goroutines whose current map access overlaps a write
    crashed,    \* ConcSpec: the runtime has thrown a fatal error; the process is gone
    nreq        \* ConcSpec: requests accepted so far

store == <<users, heap, files, nextID, clock>>

ghosts == <<returned, gone, expect>>

conc == <<pc, loc, out, raced, crashed, nreq>>

vars == <<users, heap, files, nextID, clock, resp, returned, gone, expect,
          pc, loc, out, raced, crashed, nreq>>

\* the outcomes of the three calls of saveUserToFile that can fail
IOResults == {"ok", "mkdir", "marshal", "write"}

\* a mirror that never writes
saveUserToFile_Skip(fs, user, io) == fs

\* saveUserToFile(user): the file named by user.ID holds the user's JSON when
\* MkdirAll, MarshalIndent and WriteFile all succeed; otherwise it logs and returns.
saveUserToFile(fs, user, io) ==
    IF io = "ok" THEN MapAssign(fs, user.ID, user) ELSE fs

\* the objects still referenced from the map or from a handler (the rest is garbage)
Collect(h, roots) == [a \in DOMAIN h \cap roots |-> h[a]]

Range(f) == {f[x] : x \in DOMAIN f}

\* f with k mapped to v, and f without k (the bookkeeping of the history variables)
With(f, k, v) == [x \in DOMAIN f \cup {k} |-> IF x = k THEN v ELSE f[x]]

Without(f, k) == [x \in DOMAIN f \ {k} |-> f[x]]

\* what a client that reads the responses knows
Ghosts(r) ==
    /\ returned' = IF r.op = "create" /\ r.code = 201
                   THEN returned \cup {r.data[1].ID} ELSE returned
    /\ gone' = IF r.op = "delete" /\ r.code = 200 THEN gone \cup {r.id} ELSE gone
    /\ expect' = IF r.op = "create" /\ r.code = 201
                 THEN With(expect, r.data[1].ID, <<r.data[1].Name, r.data[1].Email>>)
                 ELSE IF r.op = "update" /\ r.code = 200
                 THEN With(expect, r.id, <<r.data[1].Name, r.data[1].Email>>)
                 ELSE IF r.op = "delete" /\ r.code = 200
                 THEN Without(expect, r.id)
                 ELSE expect

\* c.JSON(code, response) of a request handled alone
Reply(r) == resp' = r /\ Ghosts(r)

Init ==
    /\ users = EmptyMap
    /\ heap = EmptyMap
    /\ files = EmptyMap
    /\ nextID = 0
    /\ clock = 1
    /\ resp = NoResponse
    /\ returned = {}
    /\ gone = {}
    /\ expect = EmptyMap
    /\ pc = [p \in Procs |-> "idle"]
    /\ loc = [p \in Procs |-> NoLocal]
    /\ out = [p \in Procs |-> NoResponse]
    /\ raced = {}
    /\ crashed = FALSE
    /\ nreq = 0

\* ------------------------------------------------------- handlers, one at a time
\* GET /health
healthHandler ==
    /\ Reply(Response("health", "", NoBody, 200, "ok", "health", <<>>))
    /\ UNCHANGED <<store, conc>>

\* a loop that stops one key early
UserList_DropLast(m, order) ==
    [i \in 1..(IF Len(order) = 0 THEN 0 ELSE Len(order) - 1) |-> m[order[i]]]

\* the loop of getUsersHandler: userList gets the pointer of every key the range
\* visits, in the order it visits them
UserList(m, order) == [i \in 1..Len(order) |-> m[order[i]]]

\* json.Marshal of a []*User: the Users the pointers lead to
Deref(h, ptrs) == [i \in 1..Len(ptrs) |-> h[ptrs[i]]]

\* GET /api/v1/users
getUsersHandler ==
    /\ \E order \in Orders(DOMAIN users) :
          Reply(Response("list", "", NoBody, 200, "success", "list",
                         Deref(heap, UserList(users, order))))
    /\ UNCHANGED <<store, conc>>

\* the store as a handler leaves it, with the response it sends
Outcome(u, h, fs, n, c, r) ==
    [users |-> u, heap |-> h, files |-> fs, nextID |-> n, clock |-> c, resp |-> r]

\* the handler's effect: the store becomes o's and o.resp is sent
Commit(o) ==
    /\ users' = o.users
    /\ heap' = o.heap
    /\ files' = o.files
    /\ nextID' = o.nextID
    /\ clock' = o.clock
    /\ Reply(o.resp)

\* a create that answers 500 when the mirror write fails
createUser_Surfaced(body, io) ==
    LET b == ShouldBindJSON(body) IN
    IF b.err
    THEN Outcome(users, heap, files, nextID, clock,
                 Response("create", "", body, 400, "error", "none", <<>>))
    ELSE LET user == [b.user EXCEPT !.ID = NewUUID(nextID), !.CreatedAt = clock]
             addr == nextID + 1
         IN Outcome(MapAssign(users, user.ID, addr), MapAssign(heap, addr, user),
                    saveUserToFile(files, user, io), nextID + 1, clock + 1,
                    IF io = "ok"
                    THEN Response("create", "", body, 201, "success", "user", <<user>>)
                    ELSE Response("create", "", body, 500, "error", "none", <<>>))

\* what createUserHandler does with a body when saveUserToFile ends with io
createUser(body, io) ==
    LET b == ShouldBindJSON(body) IN
    IF b.err
    THEN Outcome(users, heap, files, nextID, clock,
                 Response("create", "", body, 400, "error", "none", <<>>))
    ELSE LET user == [b.user EXCEPT !.ID = NewUUID(nextID), !.CreatedAt = clock]
             addr == nextID + 1
         IN Outcome(MapAssign(users, user.ID, addr), MapAssign(heap, addr, user),
                    saveUserToFile(files, user, io), nextID + 1, clock + 1,
                    Response("create", "", body, 201, "success", "user", <<user>>))

\* POST /api/v1/users (no more than MaxUsers users are created in a run)
createUserHandler(body, io) ==
    /\ ShouldBindJSON(body).err \/ nextID < MaxUsers
    /\ Commit(createUser(body, io))
    /\ UNCHANGED conc

\* GET /api/v1/users/:id
getUserHandler(id) ==
    /\ IF id \notin DOMAIN users
       THEN Reply(Response("get", id, NoBody, 404, "error", "none", <<>>))
       ELSE Reply(Response("get", id, NoBody, 200, "success", "user", <<heap[users[id]]>>))
    /\ UNCHANGED <<store, conc>>

\* an update that assigns the name whether or not it is empty
UpdateName_Always(user, updateData) == [user EXCEPT !.Name = updateData.Name]

\* an update that stores the decoded body in place of the record
UpdateName_CopyAll(user, updateData) == updateData

\* the two assignments of updateUserHandler: a non-empty field replaces the stored one
UpdateName(user, updateData) ==
    IF updateData.Name # "" THEN [user EXCEPT !.Name = updateData.Name] ELSE user

UpdateEmail(user, updateData) ==
    IF updateData.Email # "" THEN [user EXCEPT !.Email = updateData.Email] ELSE user

\* what updateUserHandler does with an id and a body when saveUserToFile ends with io
updateUser(id, body, io) ==
    IF id \notin DOMAIN users
    THEN Outcome(users, heap, files, nextID, clock,
                 Response("update", id, body, 404, "error", "none", <<>>))
    ELSE LET b == ShouldBindJSON(body) IN
         IF b.err
         THEN Outcome(users, heap, files, nextID, clock,
                      Response("update", id, body, 400, "error", "none", <<>>))
         ELSE LET user == UpdateEmail(UpdateName(heap[users[id]], b.user), b.user)
              IN Outcome(users, [heap EXCEPT ![users[id]] = user],
                         saveUserToFile(files, user, io), nextID, clock,
                         Response("update", id, body, 200, "success", "user", <<user>>))

\* PUT /api/v1/users/:id
updateUserHandler(id, body, io) ==
    /\ Commit(updateUser(id, body, io))
    /\ UNCHANGED conc

\* a delete that also removes the user's mirror file
deleteUserHandler_RemovesFile(id) ==
    /\ IF id \notin DOMAIN users
       THEN /\ Reply(Response("delete", id, NoBody, 404, "error", "none", <<>>))
            /\ UNCHANGED store
       ELSE /\ users' = MapDelete(users, id)
            /\ heap' = Collect(heap, Range(users'))
            /\ files' = MapDelete(files, id)
            /\ Reply(Response("delete", id, NoBody, 200, "success", "none", <<>>))
            /\ UNCHANGED <<nextID, clock>>
    /\ UNCHANGED conc

\* DELETE /api/v1/users/:id
deleteUserHandler(id) ==
    /\ IF id \notin DOMAIN users
       THEN /\ Reply(Response("delete", id, NoBody, 404, "error", "none", <<>>))
            /\ UNCHANGED store
       ELSE /\ users' = MapDelete(users, id)
            /\ heap' = Collect(heap, Range(users'))
            /\ Reply(Response("delete", id, NoBody, 200, "success", "none", <<>>))
            /\ UNCHANGED <<files, nextID, clock>>
    /\ UNCHANGED conc

Next ==
    \/ healthHandler
    \/ getUsersHandler
    \/ \E body \in Bodies : createUserHandler(body, "ok")
    \/ \E id \in ReqIDs : getUserHandler(id)
    \/ \E id \in ReqIDs, body \in Bodies : updateUserHandler(id, body, "ok")
    \/ \E id \in ReqIDs : deleteUserHandler(id)

Spec == Init /\ [][Next]_vars

\* the request bodies of FaultSpec
FaultBodies ==
    {[kind |-> "malformed", id |-> "", name |-> "", email |-> "", created_at |-> 0]}
    \cup
    {[kind |-> "object", id |-> "", name |-> x[1], email |-> x[2], created_at |-> 0] :
        x \in {<<"A", "a@x">>, <<"B", "">>}}

\* requests handled one at a time on a disk whose writes may fail
FaultNext ==
    \/ healthHandler
    \/ getUsersHandler
    \/ \E body \in FaultBodies, io \in IOResults : createUserHandler(body, io)
    \/ \E id \in ReqIDs : getUserHandler(id)
    \/ \E id \in ReqIDs, body \in FaultBodies, io \in IOResults :
          updateUserHandler(id, body, io)
    \/ \E id \in ReqIDs : deleteUserHandler(id)

FaultSpec == Init /\ [][FaultNext]_vars

\* ------------------------------------------------- handlers as goroutines
\* net/http runs every request's handler in its own goroutine and nothing in
\* the handlers synchronises them. A handler is cut at its accesses to the
\* shared map and to the shared User objects; the code between two accesses
\* touches only its own locals and runs with the access that follows it.
\* A map access takes time: it begins in one step and ends, with its effect,
\* in a later one.

\* the positions inside a map access, and those inside a write of the map
MapAccess == {"l_iterating", "c_storing", "g_looking", "u_looking", "d_looking", "d_deleting"}

MapWrite == {"c_storing", "d_deleting"}

\* goroutine q is inside a map access that overlaps another one, one of them a write
Overlap(pcs, q) ==
    /\ pcs[q] \in MapAccess
    /\ \E r \in Procs \ {q} :
          pcs[r] \in MapAccess /\ (pcs[q] \in MapWrite \/ pcs[r] \in MapWrite)

\* the goroutines whose current access has overlapped a write since it began
Raced(pcs) == {q \in Procs : Overlap(pcs, q) \/ (q \in raced /\ pcs[q] = pc[q])}

\* what an access that raced may do besides its effect: lose it
Lost(p) == IF p \in raced THEN {FALSE, TRUE} ELSE {FALSE}

\* the addresses the map and the handlers' locals hold
Roots(u, l) ==
    Range(u) \cup {l[q].ptr : q \in Procs} \cup UNION {Range(l[q].list) : q \in Procs}

\* c.JSON(code, response) of goroutine p
Emit(p, r) == out' = [out EXCEPT ![p] = r] /\ Ghosts(r)

\* the handler of p returns after sending r
Done(p, r) ==
    /\ pc' = [pc EXCEPT ![p] = "idle"]
    /\ loc' = [loc EXCEPT ![p] = NoLocal]
    /\ Emit(p, r)

\* the handler of p goes on at `where` with locals l
Goto(p, where, l) ==
    /\ pc' = [pc EXCEPT ![p] = where]
    /\ loc' = [loc EXCEPT ![p] = l]
    /\ UNCHANGED <<out, ghosts>>

\* a request arrives and p starts its handler
Accept(p) == ~crashed /\ pc[p] = "idle" /\ nreq < MaxReqs /\ nreq' = nreq + 1

\* p is at `where` in its handler
At(p, where) == ~crashed /\ pc[p] = where /\ nreq' = nreq

\* the Go runtime finds a map access overlapping a write ("fatal error:
\* concurrent map writes", "concurrent map read and map write"): the process exits
Throw ==
    /\ ~crashed
    /\ \E q \in Procs : Overlap(pc, q)
    /\ crashed' = TRUE
    /\ UNCHANGED <<store, resp, ghosts, pc, loc, out, raced, nreq>>

\* GET /health
StartHealth(p) ==
    /\ Accept(p)
    /\ Done(p, Response("health", "", NoBody, 200, "ok", "health", <<>>))
    /\ raced' = Raced(pc')
    /\ UNCHANGED <<store, resp, crashed>>

\* GET /api/v1/users: the range loop begins
StartList(p) ==
    /\ Accept(p)
    /\ Goto(p, "l_iterating", [NoLocal EXCEPT !.op = "list"])
    /\ raced' = Raced(pc')
    /\ UNCHANGED <<store, resp, crashed>>

\* the range loop ends: userList holds the pointers it visited (a loop that
\* raced with a write may have missed keys)
ListIterEnd(p) ==
    /\ At(p, "l_iterating")
    /\ \E seen \in (IF p \in raced THEN SUBSET DOMAIN users ELSE {DOMAIN users}) :
          \E order \in Orders(seen) :
              Goto(p, "l_resp", [loc[p] EXCEPT !.list = UserList(users, order)])
    /\ raced' = Raced(pc')
    /\ UNCHANGED <<store, resp, crashed>>

\* c.JSON serialises the Users the pointers of userList lead to
ListRespond(p) ==
    /\ At(p, "l_resp")
    /\ Done(p, Response("list", "", NoBody, 200, "success", "list",
                        Deref(heap, loc[p].list)))
    /\ heap' = Collect(heap, Roots(users, loc'))
    /\ raced' = Raced(pc')
    /\ UNCHANGED <<users, files, nextID, clock, resp, crashed>>

\* POST /api/v1/users: bind, generate ID and timestamp, begin users[user.ID] = &user
StartCreate(p, body) ==
    LET b == ShouldBindJSON(body) IN
    /\ Accept(p)
    /\ IF b.err
       THEN /\ Done(p, Response("create", "", body, 400, "error", "none", <<>>))
            /\ UNCHANGED store
       ELSE /\ nextID < MaxUsers
            /\ LET user == [b.user EXCEPT !.ID = NewUUID(nextID), !.CreatedAt = clock]
                   addr == nextID + 1
               IN /\ heap' = MapAssign(heap, addr, user)
                  /\ nextID' = nextID + 1
                  /\ clock' = clock + 1
                  /\ Goto(p, "c_storing",
                          [NoLocal EXCEPT !.op = "create", !.body = body, !.ptr = addr])
                  /\ UNCHANGED <<users, files>>
    /\ raced' = Raced(pc')
    /\ UNCHANGED <<resp, crashed>>

\* users[user.ID] = &user ends
CreateStoreEnd(p) ==
    /\ At(p, "c_storing")
    /\ \E lost \in Lost(p) :
          users' = IF lost THEN users ELSE MapAssign(users, heap[loc[p].ptr].ID, loc[p].ptr)
    /\ Goto(p, "c_save", loc[p])
    /\ raced' = Raced(pc')
    /\ UNCHANGED <<heap, files, nextID, clock, resp, crashed>>

\* saveUserToFile(&user) and the 201 response with a copy of user
CreateSave(p, io) ==
    /\ At(p, "c_save")
    /\ files' = saveUserToFile(files, heap[loc[p].ptr], io)
    /\ Done(p, Response("create", "", loc[p].body, 201, "success", "user",
                        <<heap[loc[p].ptr]>>))
    /\ heap' = Collect(heap, Roots(users, loc'))
    /\ raced' = Raced(pc')
    /\ UNCHANGED <<users, nextID, clock, resp, crashed>>

\* GET /api/v1/users/:id: users[id] begins
StartGet(p, id) ==
    /\ Accept(p)
    /\ Goto(p, "g_looking", [NoLocal EXCEPT !.op = "get", !.id = id])
    /\ raced' = Raced(pc')
    /\ UNCHANGED <<store, resp, crashed>>

\* user, exists := users[id] ends (a lookup that raced with a write may miss the key)
GetLookupEnd(p) ==
    /\ At(p, "g_looking")
    /\ \E miss \in Lost(p) :
          IF miss \/ loc[p].id \notin DOMAIN users
          THEN Done(p, Response("get", loc[p].id, NoBody, 404, "error", "none", <<>>))
          ELSE Goto(p, "g_resp", [loc[p] EXCEPT !.ptr = users[loc[p].id]])
    /\ raced' = Raced(pc')
    /\ UNCHANGED <<store, resp, crashed>>

\* c.JSON serialises the User the pointer leads to
GetRespond(p) ==
    /\ At(p, "g_resp")
    /\ Done(p, Response("get", loc[p].id, NoBody, 200, "success", "user",
                        <<heap[loc[p].ptr]>>))
    /\ heap' = Collect(heap, Roots(users, loc'))
    /\ raced' = Raced(pc')
    /\ UNCHANGED <<users, files, nextID, clock, resp, crashed>>

\* PUT /api/v1/users/:id: users[id] begins
StartUpdate(p, id, body) ==
    /\ Accept(p)
    /\ Goto(p, "u_looking", [NoLocal EXCEPT !.op = "update", !.id = id, !.body = body])
    /\ raced' = Raced(pc')
    /\ UNCHANGED <<store, resp, crashed>>

\* user, exists := users[id] ends; then the body is bound
UpdateLookupEnd(p) ==
    LET b == ShouldBindJSON(loc[p].body) IN
    /\ At(p, "u_looking")
    /\ \E miss \in Lost(p) :
          IF miss \/ loc[p].id \notin DOMAIN users
          THEN Done(p, Response("update", loc[p].id, loc[p].body, 404, "error", "none", <<>>))
          ELSE IF b.err
          THEN Done(p, Response("update", loc[p].id, loc[p].body, 400, "error", "none", <<>>))
          ELSE Goto(p, "u_name", [loc[p] EXCEPT !.ptr = users[loc[p].id], !.data = b.user])
    /\ raced' = Raced(pc')
    /\ UNCHANGED <<store, resp, crashed>>

\* if updateData.Name != "" { user.Name = updateData.Name }
UpdateSetName(p) ==
    /\ At(p, "u_name")
    /\ heap' = [heap EXCEPT ![loc[p].ptr] = UpdateName(@, loc[p].data)]
    /\ Goto(p, "u_email", loc[p])
    /\ raced' = Raced(pc')
    /\ UNCHANGED <<users, files, nextID, clock, resp, crashed>>

\* if updateData.Email != "" { user.Email = updateData.Email }
UpdateSetEmail(p) ==
    /\ At(p, "u_email")
    /\ heap' = [heap EXCEPT ![loc[p].ptr] = UpdateEmail(@, loc[p].data)]
    /\ Goto(p, "u_save", loc[p])
    /\ raced' = Raced(pc')
    /\ UNCHANGED <<users, files, nextID, clock, resp, crashed>>

\* saveUserToFile(user) and the 200 response with the User the pointer leads to
UpdateSave(p, io) ==
    /\ At(p, "u_save")
    /\ files' = saveUserToFile(files, heap[loc[p].ptr], io)
    /\ Done(p, Response("update", loc[p].id, loc[p].body, 200, "success", "user",
                        <<heap[loc[p].ptr]>>))
    /\ heap' = Collect(heap, Roots(users, loc'))
    /\ raced' = Raced(pc')
    /\ UNCHANGED <<users, nextID, clock, resp, crashed>>

\* DELETE /api/v1/users/:id: users[id] begins
StartDelete(p, id) ==
    /\ Accept(p)
    /\ Goto(p, "d_looking", [NoLocal EXCEPT !.op = "delete", !.id = id])
    /\ raced' = Raced(pc')
    /\ UNCHANGED <<store, resp, crashed>>

\* _, exists := users[id] ends; then delete(users, id) begins
DeleteLookupEnd(p) ==
    /\ At(p, "d_looking")
    /\ \E miss \in Lost(p) :
          IF miss \/ loc[p].id \notin DOMAIN users
          THEN Done(p, Response("delete", loc[p].id, NoBody, 404, "error", "none", <<>>))
          ELSE Goto(p, "d_deleting", loc[p])
    /\ raced' = Raced(pc')
    /\ UNCHANGED <<store, resp, crashed>>

\* delete(users, id) ends, and the 200 response
DeleteEnd(p) ==
    /\ At(p, "d_deleting")
    /\ \E lost \in Lost(p) :
          users' = IF lost THEN users ELSE MapDelete(users, loc[p].id)
    /\ Done(p, Response("delete", loc[p].id, NoBody, 200, "success", "none", <<>>))
    /\ heap' = Collect(heap, Roots(users', loc'))
    /\ raced' = Raced(pc')
    /\ UNCHANGED <<files, nextID, clock, resp, crashed>>

\* the steps of goroutine p
ProcStep(p) ==
    \/ StartHealth(p)
    \/ StartList(p)
    \/ ListIterEnd(p)
    \/ ListRespond(p)
    \/ \E body \in ConcBodies : StartCreate(p, body)
    \/ CreateStoreEnd(p)
    \/ CreateSave(p, "ok")
    \/ \E id \in ReqIDs : StartGet(p, id)
    \/ GetLookupEnd(p)
    \/ GetRespond(p)
    \/ \E id \in ReqIDs, body \in ConcBodies : StartUpdate(p, id, body)
    \/ UpdateLookupEnd(p)
    \/ UpdateSetName(p)
    \/ UpdateSetEmail(p)
    \/ UpdateSave(p, "ok")
    \/ \E id \in ReqIDs : StartDelete(p, id)
    \/ DeleteLookupEnd(p)
    \/ DeleteEnd(p)

ConcNext ==
    \/ Throw
    \/ \E p \in Procs : ProcStep(p)

ConcSpec == Init /\ [][ConcNext]_vars

\* ------------------------------------------------------------------ claims
\* the record stored under key k
Stored(k) == heap[users[k]]

\* the store and the mirror files are as they were
StoreSame == users' = users /\ heap' = heap /\ files' = files

\* C1: a create with a body that decodes (whatever id and created_at it
\* carries) is answered 201 with an ID no earlier create response carried and
\* that is no key of the map, stores the submitted name and email under that
\* ID and leaves every stored record as it was; a get of that ID right after
\* the create is answered 200 with that ID and the submitted name and email.
C1_CreateThenGet ==
    [][/\ (resp'.op = "create" /\ resp'.req.kind = "object") =>
            /\ resp'.code = 201
            /\ resp'.data[1].ID \notin returned
            /\ resp'.data[1].ID \notin DOMAIN users
            /\ resp'.data[1].ID \in DOMAIN users'
            /\ heap'[users'[resp'.data[1].ID]].Name = resp'.req.name
            /\ heap'[users'[resp'.data[1].ID]].Email = resp'.req.email
            /\ \A k \in DOMAIN users : k \in DOMAIN users' /\ heap'[users'[k]] = Stored(k)
       /\ (/\ resp.op = "create" /\ resp.code = 201
           /\ resp'.op = "get" /\ resp'.id = resp.data[1].ID) =>
            /\ resp'.code = 200
            /\ resp'.data[1].ID = resp'.id
            /\ resp'.data[1].Name = resp.req.name
            /\ resp'.data[1].Email = resp.req.email
      ]_vars

\* a create whose body carried the id of a stored user and a created_at was
\* answered with another ID, and the record get would return is the submitted one
C1_Witness ==
    /\ resp.op = "create" /\ resp.code = 201
    /\ resp.req.id = "u1" /\ resp.req.created_at = 99 /\ resp.req.name = "B"
    /\ "u1" \in DOMAIN users
    /\ resp.data[1].ID = "u2"
    /\ Stored("u2").Name = "B" /\ Stored("u1").Name # "B"

\* C2: an update of a stored id with a body that decodes leaves the record
\* with the body's name if that is non-empty and the old name otherwise, and
\* likewise the email, and answers 200 with the resulting record; a body that
\* does not decode leaves the record as it was; an update of an id that is not
\* stored is answered 404 and changes neither the store nor the files.
C2_UpdatePartial ==
    [][resp'.op = "update" =>
        IF resp'.id \in DOMAIN users
        THEN /\ resp'.id \in DOMAIN users'
             /\ heap'[users'[resp'.id]].Name =
                    IF resp'.req.name # "" THEN resp'.req.name ELSE Stored(resp'.id).Name
             /\ heap'[users'[resp'.id]].Email =
                    IF resp'.req.email # "" THEN resp'.req.email ELSE Stored(resp'.id).Email
             /\ resp'.req.kind = "object" =>
                    /\ resp'.code = 200
                    /\ resp'.data = <<heap'[users'[resp'.id]]>>
        ELSE resp'.code = 404 /\ StoreSame
      ]_vars

\* the spec's example: name replaced, empty email ignored
C2_Witness ==
    /\ resp.op = "update" /\ resp.code = 200
    /\ resp.req.name = "B" /\ resp.req.email = ""
    /\ resp.data[1].Name = "B" /\ resp.data[1].Email = "a@x"
    /\ Stored(resp.id) = resp.data[1]

\* C3: once a delete of an id has been answered with success, every later
\* get, update and delete of that id is answered 404.
C3_DeleteFinal ==
    [][(resp'.op \in {"get", "update", "delete"} /\ resp'.id \in gone) =>
            resp'.code = 404]_vars

\* a delete of an id deleted earlier, after every ID has been issued
C3_Witness ==
    /\ resp.op = "delete" /\ resp.code = 404 /\ resp.id \in gone
    /\ nextID = MaxUsers /\ users # EmptyMap

\* C4: list returns one record for every ID that a create returned and no
\* delete removed, each with the name and email the last create or update
\* response gave for it, and nothing else.
C4_ListComplete ==
    resp.op = "list" =>
        /\ resp.code = 200
        /\ {resp.data[i].ID : i \in 1..Len(resp.data)} = returned \ gone
        /\ Len(resp.data) = Cardinality(returned \ gone)
        /\ \A i \in 1..Len(resp.data) :
              expect[resp.data[i].ID] = <<resp.data[i].Name, resp.data[i].Email>>

\* a list of the one record left after two creates and a delete
C4_Witness ==
    /\ resp.op = "list" /\ Len(resp.data) = 1 /\ gone # {} /\ nextID = 2
    /\ resp.data[1].ID \notin gone

\* C5: no goroutine handling a create, an update or a delete is inside an
\* access to the users map while another goroutine is inside one too.
C5_MutualExclusion ==
    \A p, q \in Procs :
        (p # q /\ pc[p] \in MapAccess /\ pc[q] \in MapAccess) =>
            loc[p].op \notin {"create", "update", "delete"}

\* the requests so far are NProcs creates with bodies that decode, one per
\* goroutine, on the store as it starts (empty)
OnlyCreates ==
    /\ nreq = NProcs
    /\ \A p \in Procs :
          \/ pc[p] # "idle" /\ loc[p].op = "create"
          \/ pc[p] = "idle" /\ out[p].op = "create" /\ out[p].req.kind = "object"

\* C6: NProcs concurrent creates on the empty store all complete (no fatal
\* error ends the process), and once they have, their responses are 201 with
\* pairwise distinct IDs and the map holds exactly those IDs.
C6_ConcurrentCreates ==
    OnlyCreates =>
        /\ ~crashed
        /\ (\A p \in Procs : pc[p] = "idle") =>
              /\ \A p \in Procs : out[p].code = 201
              /\ \A p, q \in Procs : out[p].data[1].ID = out[q].data[1].ID => p = q
              /\ DOMAIN users = {out[p].data[1].ID : p \in Procs}
              /\ Cardinality(DOMAIN users) = NProcs

\* C7: a create with a body that is not JSON is answered 400 with status
\* "error", and the map, the records and the files stay as they were.
C7_CreateMalformed ==
    [][(resp'.op = "create" /\ resp'.req.kind = "malformed") =>
            /\ resp'.code = 400 /\ resp'.status = "error"
            /\ StoreSame]_vars

\* a malformed create answered 400 on a store that holds a user
C7_Witness ==
    /\ resp.op = "create" /\ resp.req.kind = "malformed" /\ resp.code = 400
    /\ users # EmptyMap /\ files # EmptyMap

\* C8: an update with a body that is not JSON is answered 400 whatever the
\* id, stored or not, and the store and the files stay as they were.
C8_UpdateMalformed ==
    [][(resp'.op = "update" /\ resp'.req.kind = "malformed") =>
            /\ resp'.code = 400
            /\ StoreSame]_vars

\* C9: a create whose body decodes but has no name or no email is answered
\* 400 with status "error" and adds no record.
C9_CreateMissingField ==
    [][(/\ resp'.op = "create" /\ resp'.req.kind = "object"
        /\ (resp'.req.name = "" \/ resp'.req.email = "")) =>
            /\ resp'.code = 400 /\ resp'.status = "error"
            /\ users' = users]_vars

\* every record is stored under its own ID, and no two keys share a record
KeyIsID ==
    /\ \A k \in DOMAIN users : users[k] \in DOMAIN heap /\ Stored(k).ID = k
    /\ \A k1, k2 \in DOMAIN users : users[k1] = users[k2] => k1 = k2

\* C10: every record is stored under the key equal to its ID field (so live
\* records have distinct IDs), and an update, whatever id and created_at its
\* body carries, leaves the ID and the creation time of every record as they were.
C10_IDInvariant ==
    /\ []KeyIsID
    /\ [][resp'.op = "update" =>
            \A k \in DOMAIN users :
                /\ k \in DOMAIN users'
                /\ heap'[users'[k]].ID = Stored(k).ID
                /\ heap'[users'[k]].CreatedAt = Stored(k).CreatedAt]_vars

\* an update of u2 whose body carried the id u1 and a created_at
C10_Witness ==
    /\ resp.op = "update" /\ resp.code = 200 /\ resp.id = "u2"
    /\ resp.req.id = "u1" /\ resp.req.created_at = 99
    /\ "u1" \in DOMAIN users
    /\ Stored("u2").ID = "u2" /\ Stored("u2").CreatedAt = 2

\* C11: a create or an update is answered the same and leaves the map and the
\* records the same whether saveUserToFile succeeds or fails: every such step,
\* whatever the mirror write did, sends the response and leaves the map, the
\* records, the uuid count and the clock that the handler produces from the
\* same state and request when the write succeeds.
C11_MirrorFailureInvisible ==
    [][/\ resp'.op = "create" =>
            LET o == createUser(resp'.req, "ok")
            IN /\ resp' = o.resp
               /\ users' = o.users /\ heap' = o.heap
               /\ nextID' = o.nextID /\ clock' = o.clock
       /\ resp'.op = "update" =>
            LET o == updateUser(resp'.id, resp'.req, "ok")
            IN /\ resp' = o.resp
               /\ users' = o.users /\ heap' = o.heap
               /\ nextID' = o.nextID /\ clock' = o.clock
      ]_vars

\* an update answered 200 whose mirror write failed, after a create whose
\* write failed too: the record is stored and has no file
C11_Witness ==
    /\ resp.op = "update" /\ resp.code = 200 /\ resp.req.name = "B"
    /\ resp.id \in DOMAIN users /\ Stored(resp.id).Name = "B"
    /\ resp.id \notin DOMAIN files

\* C12: every response of the five user endpoints has code 200, 201, 400 or
\* 404; with 400 or 404 its status is "error" and it has no data; with 200 or
\* 201 its status is "success"; a delete's success has no data; the success of
\* a create, a get or an update carries the one user it created, read or changed.
C12_Envelope ==
    resp.op \in {"list", "create", "get", "update", "delete"} =>
        /\ resp.code \in {200, 201, 400, 404}
        /\ resp.code \in {400, 404} =>
              resp.status = "error" /\ resp.payload = "none" /\ resp.data = <<>>
        /\ resp.code \in {200, 201} => resp.status = "success"
        /\ (resp.op = "delete" /\ resp.code = 200) =>
              resp.payload = "none" /\ resp.data = <<>>
        /\ (resp.op \in {"create", "get", "update"} /\ resp.code \in {200, 201}) =>
              /\ resp.payload = "user" /\ Len(resp.data) = 1
              /\ resp.op \in {"get", "update"} => resp.data[1].ID = resp.id
              /\ resp.data[1].ID \in DOMAIN users
              /\ resp.data[1] = Stored(resp.data[1].ID)

\* a delete answered with success and no data while another user is stored
C12_Witness ==
    /\ resp.op = "delete" /\ resp.code = 200 /\ resp.status = "success"
    /\ resp.payload = "none" /\ users # EmptyMap

\* the name and email of a User or of a decoded body
Pair(u) == <<u.Name, u.Email>>

\* a body that sets both the name and the email
Full(body) == body.kind = "object" /\ body.name # "" /\ body.email # ""

\* after one create and two updates of the created id that each set name and
\* email, the record has the name and email of one of the two bodies
TwoUpdatesSerial ==
    \A p, q \in Procs :
        (/\ p # q /\ nreq = 3 /\ ~crashed
         /\ \A r \in Procs : pc[r] = "idle"
         /\ out[p].op = "update" /\ out[p].code = 200 /\ Full(out[p].req)
         /\ out[q].op = "update" /\ out[q].code = 200 /\ Full(out[q].req)
         /\ out[p].id = out[q].id /\ out[p].id \in DOMAIN users) =>
            Pair(Stored(out[p].id)) \in
                {<<out[p].req.name, out[p].req.email>>, <<out[q].req.name, out[q].req.email>>}

\* a get that answers while an update of the same record that sets name and
\* email is under way carries the record as the last response described it or
\* as the update's body makes it
GetSeesWhole ==
    \A p, q \in Procs :
        (/\ p # q /\ pc[p] = "g_resp" /\ pc'[p] = "idle"
         /\ pc[q] \in {"u_name", "u_email", "u_save"}
         /\ loc[q].ptr = loc[p].ptr /\ Full(loc[q].body)
         /\ loc[p].id \in DOMAIN expect) =>
            Pair(out'[p].data[1]) \in {expect[loc[p].id], Pair(loc[q].data)}

\* C13: two concurrent updates of one id that each set name and email leave
\* the record as one of the two serial orders would, and a concurrent get
\* sees the record whole, as it was before an update or as it is after it.
C13_UpdateAtomic == []TwoUpdatesSerial /\ [][GetSeesWhole]_vars

\* C14: with requests handled one at a time and no mirror write failing,
\* every stored record has a file named by its ID whose content is the record
\* as it is stored.
C14_MirrorMatchesStore ==
    \A k \in DOMAIN users : k \in DOMAIN files /\ files[k] = Stored(k)

\* an update changed a record after its create wrote the file, and the file
\* has the changed record
C14_Witness ==
    /\ resp.op = "update" /\ resp.code = 200 /\ resp.req.name = "B"
    /\ resp.id \in DOMAIN files
    /\ files[resp.id] = Stored(resp.id) /\ files[resp.id].Name = "B"
    /\ resp.data[1].Email = "a@x" /\ resp.req.email = ""

\* C15: no request is fatal and every started handler gets to its response:
\* the process never ends with a fatal error, and a goroutine that is inside
\* a handler can always take that handler's next step (so that under fair
\* scheduling it reaches the one c.JSON that ends the handler).
C15_AnsweredNoneFatal ==
    /\ ~crashed
    /\ \A p \in Procs : pc[p] # "idle" => ENABLED ProcStep(p)

\* every record stored under a key other than id is stored as it was
OthersSame(id) ==
    \A k \in DOMAIN users \ {id} : k \in DOMAIN users' /\ heap'[users'[k]] = Stored(k)

\* C16: health, list and get leave the map, the records and the files as they
\* were; an update or a delete of id leaves every record under another id as
\* it was and adds no key; a create answered 201 leaves every record stored
\* before as it was and the map has exactly one key more.
C16_Frame ==
    [][/\ resp'.op \in {"health", "list", "get"} => StoreSame
       /\ resp'.op \in {"update", "delete"} =>
            /\ OthersSame(resp'.id)
            /\ DOMAIN users' \subseteq DOMAIN users
       /\ (resp'.op = "create" /\ resp'.code = 201) =>
            /\ OthersSame("")
            /\ Cardinality(DOMAIN users') = Cardinality(DOMAIN users) + 1
      ]_vars

\* a delete answered with success while another record stays stored
C16_Witness ==
    /\ resp.op = "delete" /\ resp.code = 200
    /\ \E k \in DOMAIN users : k # resp.id /\ Stored(k).Name = "A"

\* C17: a delete answered with success removes the id from the map and
\* leaves every mirror file, the deleted user's included, as it was; no step
\* of any handler removes a mirror file.
C17_DeleteKeepsMirror ==
    [][/\ DOMAIN files \subseteq DOMAIN files'
       /\ (resp'.op = "delete" /\ resp'.code = 200) =>
            /\ files' = files
            /\ resp'.id \in DOMAIN users
            /\ resp'.id \notin DOMAIN users'
      ]_vars

\* after a delete the mirror holds the file of an id that is no longer stored
C17_Witness ==
    /\ resp.op = "delete" /\ resp.code = 200
    /\ resp.id \in DOMAIN files /\ resp.id \notin DOMAIN users
    /\ files[resp.id].ID = resp.id

====
